---------------------------- MODULE Spec2Model ----------------------------
(***************************************************************************)
(* A model of ChessGame (src/script.js): the board, the move validator,    *)
(* the move executor, the click / promotion / reset handlers and the       *)
(* deferred bot move.  Every handler is a function from the game object    *)
(* ("this", here a record g) to the game object it leaves behind; an       *)
(* action applies one handler to the current state.                        *)
(***************************************************************************)
EXTENDS Integers, Sequences, FiniteSets, TLC

VARIABLES
    board,            \* this.board: 8x8 cells, a piece or NoPiece (null)
    currentPlayer,    \* this.currentPlayer
    selectedSquare,   \* this.selectedSquare: <<row, col>> or NoSquare (null)
    gameOver,         \* this.gameOver
    capturedPieces,   \* this.capturedPieces: color -> sequence of pieces
    scores,           \* this.scores: color -> integer
    moveHistory,      \* this.moveHistory: sequence of move records
    enPassantTarget,  \* this.enPassantTarget: [row, col] or NoTarget (null)
    castlingRights,   \* this.castlingRights: color -> side -> BOOLEAN
    botDifficulty,    \* this.botDifficulty
    botThinking,      \* this.botThinking
    promotionModal,   \* #promotion-modal: [hidden, row, col] (class + dataset)
    botTimers,        \* number of setTimeout callbacks scheduled and not yet run
    line,             \* which game of the Book the two sides draw their inputs from
    resets            \* number of new-game clicks so far

vars == <<board, currentPlayer, selectedSquare, gameOver, capturedPieces, scores,
          moveHistory, enPassantTarget, castlingRights, botDifficulty, botThinking,
          promotionModal, botTimers, line, resets>>

-----------------------------------------------------------------------------
(* Values *)

BoardSize == 8
LastIndex == 7
WhitePawnRow == 6
BlackPawnRow == 1
KingsideRookCol == 7
QueensideRookCol == 0
KingsideRookTo == 5
QueensideRookTo == 3

Rows == 0 .. LastIndex
Cols == 0 .. LastIndex
Colors == {"white", "black"}
Kinds == {"pawn", "knight", "bishop", "rook", "queen", "king"}

\* null cell, null square, null en-passant target, NaN dataset entry
NoPiece == [type |-> "none", color |-> "none", hasMoved |-> FALSE]
NoSquare == <<-1, -1>>
NoTarget == [row |-> -1, col |-> -1]
NaN == -1

Piece(t, c) == [type |-> t, color |-> c, hasMoved |-> FALSE]

pieceValues(t) ==
    CASE t = "pawn" -> 1
      [] t = "knight" -> 3
      [] t = "bishop" -> 3
      [] t = "rook" -> 5
      [] t = "queen" -> 9
      [] t = "king" -> 0

Other(color) == IF color = "white" THEN "black" ELSE "white"
Abs(x) == IF x < 0 THEN -x ELSE x
Max(x, y) == IF x > y THEN x ELSE y
Min(x, y) == IF x < y THEN x ELSE y

startingPosition ==
    <<"rook", "knight", "bishop", "queen", "king", "bishop", "knight", "rook">>

initializeBoard ==
    [row \in Rows |-> [col \in Cols |->
        IF row = 0 THEN Piece(startingPosition[col + 1], "black")
        ELSE IF row = 1 THEN Piece("pawn", "black")
        ELSE IF row = 6 THEN Piece("pawn", "white")
        ELSE IF row = 7 THEN Piece(startingPosition[col + 1], "white")
        ELSE NoPiece]]

initialCastlingRights ==
    [c \in Colors |-> [kingside |-> TRUE, queenside |-> TRUE]]

\* the squares in the order of the nested row / col loops
NumSquares == BoardSize * BoardSize

ScanSquares == [i \in 1 .. NumSquares |->
                   <<(i - 1) \div BoardSize, (i - 1) % BoardSize>>]

-----------------------------------------------------------------------------
(* Move validator *)

RECURSIVE isInCheck(_, _)
RECURSIVE wouldBeInCheck(_, _, _, _)

isPathClear(g, fromRow, fromCol, toRow, toCol) ==
    LET rowStep == IF toRow > fromRow THEN 1 ELSE IF toRow < fromRow THEN -1 ELSE 0
        colStep == IF toCol > fromCol THEN 1 ELSE IF toCol < fromCol THEN -1 ELSE 0
        n == Max(Abs(toRow - fromRow), Abs(toCol - fromCol))
    IN  \A i \in 1 .. n - 1 :
            g.board[fromRow + i * rowStep][fromCol + i * colStep] = NoPiece

isPawnMoveValid(g, fromRow, fromCol, toRow, toCol) ==
    LET piece == g.board[fromRow][fromCol]
        direction == IF piece.color = "white" THEN -1 ELSE 1
        startRow == IF piece.color = "white" THEN WhitePawnRow ELSE BlackPawnRow
        rowDiff == toRow - fromRow
        colDiff == Abs(toCol - fromCol)
        targetPiece == g.board[toRow][toCol]
    IN  \/ /\ colDiff = 0
           /\ \/ rowDiff = direction /\ targetPiece = NoPiece
              \/ fromRow = startRow /\ rowDiff = 2 * direction /\ targetPiece = NoPiece
        \/ /\ colDiff = 1
           /\ rowDiff = direction
           /\ \/ targetPiece # NoPiece /\ targetPiece.color # piece.color
              \/ /\ g.enPassantTarget # NoTarget
                 /\ g.enPassantTarget.row = toRow
                 /\ g.enPassantTarget.col = toCol

isRookMoveValid(g, fromRow, fromCol, toRow, toCol) ==
    IF fromRow # toRow /\ fromCol # toCol THEN FALSE
    ELSE isPathClear(g, fromRow, fromCol, toRow, toCol)

isBishopMoveValid(g, fromRow, fromCol, toRow, toCol) ==
    IF Abs(toRow - fromRow) # Abs(toCol - fromCol) THEN FALSE
    ELSE isPathClear(g, fromRow, fromCol, toRow, toCol)

\* canCastle without the loop over the squares the king crosses and lands on
canCastle_NoTransitTest(g, fromRow, fromCol, toRow, toCol) ==
    LET piece == g.board[fromRow][fromCol]
        isKingside == toCol > fromCol
        rookCol == IF isKingside THEN KingsideRookCol ELSE QueensideRookCol
        rook == g.board[fromRow][rookCol]
        side == IF isKingside THEN "kingside" ELSE "queenside"
        startCol == Min(fromCol, rookCol)
        endCol == Max(fromCol, rookCol)
    IN  /\ ~piece.hasMoved
        /\ rook # NoPiece /\ rook.type = "rook" /\ ~rook.hasMoved
        /\ g.castlingRights[piece.color][side]
        /\ \A col \in startCol + 1 .. endCol - 1 : g.board[fromRow][col] = NoPiece
        /\ ~isInCheck(g, piece.color)

canCastle(g, fromRow, fromCol, toRow, toCol) ==
    LET piece == g.board[fromRow][fromCol]
        isKingside == toCol > fromCol
        rookCol == IF isKingside THEN KingsideRookCol ELSE QueensideRookCol
        rook == g.board[fromRow][rookCol]
        side == IF isKingside THEN "kingside" ELSE "queenside"
        startCol == Min(fromCol, rookCol)
        endCol == Max(fromCol, rookCol)
        step == IF isKingside THEN 1 ELSE -1
    IN  /\ ~piece.hasMoved
        /\ rook # NoPiece /\ rook.type = "rook" /\ ~rook.hasMoved
        /\ g.castlingRights[piece.color][side]
        /\ \A col \in startCol + 1 .. endCol - 1 : g.board[fromRow][col] = NoPiece
        /\ ~isInCheck(g, piece.color)
        /\ \A i \in 1 .. 2 : ~wouldBeInCheck(g, piece.color, fromRow, fromCol + i * step)

isKingMoveValid(g, fromRow, fromCol, toRow, toCol) ==
    LET rowDiff == Abs(toRow - fromRow)
        colDiff == Abs(toCol - fromCol)
    IN  IF rowDiff <= 1 /\ colDiff <= 1 THEN TRUE
        ELSE IF rowDiff = 0 /\ colDiff = 2
             THEN canCastle(g, fromRow, fromCol, toRow, toCol)
             ELSE FALSE

isPieceMovementValid(g, pieceType, fromRow, fromCol, toRow, toCol) ==
    LET absRowDiff == Abs(toRow - fromRow)
        absColDiff == Abs(toCol - fromCol)
    IN  CASE pieceType = "pawn" -> isPawnMoveValid(g, fromRow, fromCol, toRow, toCol)
          [] pieceType = "rook" -> isRookMoveValid(g, fromRow, fromCol, toRow, toCol)
          [] pieceType = "knight" ->
                \/ absRowDiff = 2 /\ absColDiff = 1
                \/ absRowDiff = 1 /\ absColDiff = 2
          [] pieceType = "bishop" -> isBishopMoveValid(g, fromRow, fromCol, toRow, toCol)
          [] pieceType = "queen" ->
                \/ isRookMoveValid(g, fromRow, fromCol, toRow, toCol)
                \/ isBishopMoveValid(g, fromRow, fromCol, toRow, toCol)
          [] pieceType = "king" -> isKingMoveValid(g, fromRow, fromCol, toRow, toCol)
          [] OTHER -> FALSE

isSquareAttacked(g, row, col, byColor) ==
    \E fromRow \in Rows, fromCol \in Cols :
        LET piece == g.board[fromRow][fromCol]
        IN  /\ piece # NoPiece
            /\ piece.color = byColor
            /\ isPieceMovementValid(g, piece.type, fromRow, fromCol, row, col)

\* the first king of the color in scan order, NoSquare (null) when there is none
findKing(g, color) ==
    LET found == {i \in DOMAIN ScanSquares :
                    LET piece == g.board[ScanSquares[i][1]][ScanSquares[i][2]]
                    IN  piece # NoPiece /\ piece.type = "king" /\ piece.color = color}
    IN  IF found = {} THEN NoSquare
        ELSE ScanSquares[CHOOSE i \in found : \A j \in found : i <= j]

isInCheck(g, color) ==
    LET kingPosition == findKing(g, color)
    IN  IF kingPosition = NoSquare THEN FALSE
        ELSE isSquareAttacked(g, kingPosition[1], kingPosition[2], Other(color))

wouldBeInCheck(g, color, kingRow, kingCol) ==
    LET placed == [g EXCEPT !.board[kingRow][kingCol] = Piece("king", color)]
    IN  isSquareAttacked(placed, kingRow, kingCol, Other(color))

wouldLeaveKingInCheck(g, fromRow, fromCol, toRow, toCol) ==
    LET piece == g.board[fromRow][fromCol]
        moved == [g EXCEPT !.board[toRow][toCol] = piece,
                           !.board[fromRow][fromCol] = NoPiece]
    IN  isInCheck(moved, piece.color)

isValidMove(g, fromRow, fromCol, toRow, toCol) ==
    LET piece == g.board[fromRow][fromCol]
        targetPiece == g.board[toRow][toCol]
    IN  /\ piece # NoPiece /\ piece.color = g.currentPlayer
        /\ toRow \in Rows /\ toCol \in Cols
        /\ ~(targetPiece # NoPiece /\ targetPiece.color = piece.color)
        /\ isPieceMovementValid(g, piece.type, fromRow, fromCol, toRow, toCol)
        /\ ~wouldLeaveKingInCheck(g, fromRow, fromCol, toRow, toCol)

\* the destinations of the piece on (row, col), in scan order
getValidMoves(g, row, col) ==
    IF g.board[row][col] = NoPiece THEN <<>>
    ELSE LET ok(sq) == isValidMove(g, row, col, sq[1], sq[2])
         IN  SelectSeq(ScanSquares, ok)

-----------------------------------------------------------------------------
(* Move executor *)

\* capturePiece adding the value to the score of the color of the piece
capturePiece_ScoreOfLoser(g, piece) ==
    LET taker == IF piece.color = "white" THEN "black" ELSE "white"
    IN  [g EXCEPT !.capturedPieces[taker] = Append(@, piece),
                  !.scores[piece.color] = @ + pieceValues(piece.type)]

capturePiece(g, piece) ==
    LET taker == IF piece.color = "white" THEN "black" ELSE "white"
    IN  [g EXCEPT !.capturedPieces[taker] = Append(@, piece),
                  !.scores[taker] = @ + pieceValues(piece.type)]

\* the en-passant branch of handleSpecialMoves is taken
isEnPassantBranch(g, fromRow, fromCol, toRow, toCol) ==
    /\ g.board[fromRow][fromCol].type = "pawn"
    /\ g.enPassantTarget # NoTarget
    /\ toRow = g.enPassantTarget.row
    /\ toCol = g.enPassantTarget.col

capturedPawnRow(g, fromRow, fromCol, toRow) ==
    IF g.board[fromRow][fromCol].color = "white" THEN toRow + 1 ELSE toRow - 1

\* capturePiece(null) raises a TypeError: handleSpecialMoves, and with it makeMove
\* and the handler that called it, stop there, before anything was written
makeMoveThrows(g, fromRow, fromCol, toRow, toCol) ==
    /\ isEnPassantBranch(g, fromRow, fromCol, toRow, toCol)
    /\ g.board[capturedPawnRow(g, fromRow, fromCol, toRow)][toCol] = NoPiece

\* handleSpecialMoves putting the castling rook on its new square without
\* taking it off the corner
handleSpecialMoves_RookLeft(g, fromRow, fromCol, toRow, toCol) ==
    LET piece == g.board[fromRow][fromCol]
        isKingside == toCol > fromCol
        rookFromCol == IF isKingside THEN KingsideRookCol ELSE QueensideRookCol
        rookToCol == IF isKingside THEN KingsideRookTo ELSE QueensideRookTo
        rook == g.board[fromRow][rookFromCol]
        g1 == IF piece.type = "king" /\ Abs(toCol - fromCol) = 2
              THEN [g EXCEPT !.board[fromRow][rookToCol] = [rook EXCEPT !.hasMoved = TRUE]]
              ELSE g
        pawnRow == capturedPawnRow(g, fromRow, fromCol, toRow)
    IN  IF isEnPassantBranch(g, fromRow, fromCol, toRow, toCol)
        THEN [capturePiece(g1, g1.board[pawnRow][toCol])
                 EXCEPT !.board[pawnRow][toCol] = NoPiece]
        ELSE g1

\* handleSpecialMoves tallying the pawn taken en passant without taking it off
\* the board
handleSpecialMoves_PawnLeft(g, fromRow, fromCol, toRow, toCol) ==
    LET piece == g.board[fromRow][fromCol]
        isKingside == toCol > fromCol
        rookFromCol == IF isKingside THEN KingsideRookCol ELSE QueensideRookCol
        rookToCol == IF isKingside THEN KingsideRookTo ELSE QueensideRookTo
        rook == g.board[fromRow][rookFromCol]
        g1 == IF piece.type = "king" /\ Abs(toCol - fromCol) = 2
              THEN [g EXCEPT !.board[fromRow][rookToCol] = [rook EXCEPT !.hasMoved = TRUE],
                             !.board[fromRow][rookFromCol] = NoPiece]
              ELSE g
        pawnRow == capturedPawnRow(g, fromRow, fromCol, toRow)
    IN  IF isEnPassantBranch(g, fromRow, fromCol, toRow, toCol)
        THEN capturePiece(g1, g1.board[pawnRow][toCol])
        ELSE g1

handleSpecialMoves(g, fromRow, fromCol, toRow, toCol) ==
    LET piece == g.board[fromRow][fromCol]
        isKingside == toCol > fromCol
        rookFromCol == IF isKingside THEN KingsideRookCol ELSE QueensideRookCol
        rookToCol == IF isKingside THEN KingsideRookTo ELSE QueensideRookTo
        rook == g.board[fromRow][rookFromCol]
        g1 == IF piece.type = "king" /\ Abs(toCol - fromCol) = 2
              THEN [g EXCEPT !.board[fromRow][rookToCol] = [rook EXCEPT !.hasMoved = TRUE],
                             !.board[fromRow][rookFromCol] = NoPiece]
              ELSE g
        pawnRow == capturedPawnRow(g, fromRow, fromCol, toRow)
    IN  IF isEnPassantBranch(g, fromRow, fromCol, toRow, toCol)
        THEN [capturePiece(g1, g1.board[pawnRow][toCol])
                 EXCEPT !.board[pawnRow][toCol] = NoPiece]
        ELSE g1

\* updateCastlingRights recomputing a rook's rights from the column it left
updateCastlingRights_Recomputed(g, piece, fromRow, fromCol) ==
    IF piece.type = "king"
    THEN [g EXCEPT !.castlingRights[piece.color] =
                       [kingside |-> FALSE, queenside |-> FALSE]]
    ELSE IF piece.type = "rook"
    THEN [g EXCEPT !.castlingRights[piece.color] =
                       [kingside |-> fromCol # KingsideRookCol,
                        queenside |-> fromCol # QueensideRookCol]]
    ELSE g

updateCastlingRights(g, piece, fromRow, fromCol) ==
    IF piece.type = "king"
    THEN [g EXCEPT !.castlingRights[piece.color] =
                       [kingside |-> FALSE, queenside |-> FALSE]]
    ELSE IF piece.type = "rook"
    THEN IF fromCol = QueensideRookCol
         THEN [g EXCEPT !.castlingRights[piece.color].queenside = FALSE]
         ELSE IF fromCol = KingsideRookCol
         THEN [g EXCEPT !.castlingRights[piece.color].kingside = FALSE]
         ELSE g
    ELSE g

\* updateEnPassantTarget without the branch of the pawn double move
updateEnPassantTarget_Cleared(g, piece, fromRow, fromCol, toRow, toCol) ==
    [g EXCEPT !.enPassantTarget = NoTarget]

updateEnPassantTarget(g, piece, fromRow, fromCol, toRow, toCol) ==
    IF piece.type = "pawn" /\ Abs(toRow - fromRow) = 2
    THEN [g EXCEPT !.enPassantTarget = [row |-> (fromRow + toRow) \div 2, col |-> toCol]]
    ELSE [g EXCEPT !.enPassantTarget = NoTarget]

showPromotionModal(g, row, col) ==
    [g EXCEPT !.promotionModal = [hidden |-> FALSE, row |-> row, col |-> col]]

\* makeMove when it raises nothing (see makeMoveThrows)
makeMove(g, fromRow, fromCol, toRow, toCol) ==
    LET piece == g.board[fromRow][fromCol]
        capturedPiece == g.board[toRow][toCol]
        g1 == handleSpecialMoves(g, fromRow, fromCol, toRow, toCol)
        g2 == IF capturedPiece # NoPiece THEN capturePiece(g1, capturedPiece) ELSE g1
        g3 == [g2 EXCEPT !.board[toRow][toCol] = [piece EXCEPT !.hasMoved = TRUE],
                         !.board[fromRow][fromCol] = NoPiece]
        g4 == updateCastlingRights(g3, piece, fromRow, fromCol)
        g5 == [g4 EXCEPT !.moveHistory = Append(@,
                   [from |-> <<fromRow, fromCol>>,
                    to |-> <<toRow, toCol>>,
                    piece |-> piece.type,
                    captured |-> capturedPiece,
                    enPassantTarget |-> g.enPassantTarget])]
        g6 == updateEnPassantTarget(g5, piece, fromRow, fromCol, toRow, toCol)
    IN  IF piece.type = "pawn" /\ (toRow = 0 \/ toRow = LastIndex)
        THEN showPromotionModal(g6, toRow, toCol)
        ELSE g6

-----------------------------------------------------------------------------
(* Check / terminal analyzer *)

\* some piece of the color has a destination getValidMoves returns
hasValidMove(g, color) ==
    \E fromRow \in Rows, fromCol \in Cols :
        /\ g.board[fromRow][fromCol] # NoPiece
        /\ g.board[fromRow][fromCol].color = color
        /\ \E toRow \in Rows, toCol \in Cols :
               isValidMove(g, fromRow, fromCol, toRow, toCol)

isCheckmate(g, color) ==
    IF ~isInCheck(g, color) THEN FALSE ELSE ~hasValidMove(g, color)

\* isStalemate without its test that the king is not in check
isStalemate_NoCheckTest(g, color) == ~hasValidMove(g, color)

isStalemate(g, color) ==
    IF isInCheck(g, color) THEN FALSE ELSE ~hasValidMove(g, color)

-----------------------------------------------------------------------------
(* Game controller *)

clearSelection(g) == [g EXCEPT !.selectedSquare = NoSquare]

selectSquare(g, row, col) == [g EXCEPT !.selectedSquare = <<row, col>>]

switchPlayer(g) ==
    LET g1 == [g EXCEPT !.currentPlayer = IF @ = "white" THEN "black" ELSE "white"]
    IN  IF g1.currentPlayer = "black" /\ ~g1.gameOver
        THEN [g1 EXCEPT !.botThinking = TRUE, !.botTimers = @ + 1]
        ELSE g1

endGame(g) ==
    clearSelection([g EXCEPT !.gameOver = TRUE, !.botThinking = FALSE])

\* the end-of-game test both movers run after makeMove, then switchPlayer
afterMove(g) ==
    IF isInCheck(g, g.currentPlayer)
    THEN IF isCheckmate(g, g.currentPlayer) THEN endGame(g) ELSE switchPlayer(g)
    ELSE IF isStalemate(g, g.currentPlayer) THEN endGame(g) ELSE switchPlayer(g)

\* handleSquareClick trying the move on the piece's movement rule alone
handleSquareClick_MovementOnly(g, row, col) ==
    LET piece == g.board[row][col]
        selectedRow == g.selectedSquare[1]
        selectedCol == g.selectedSquare[2]
    IN  IF g.selectedSquare # NoSquare
        THEN IF selectedRow = row /\ selectedCol = col
             THEN clearSelection(g)
             ELSE IF isPieceMovementValid(g, g.board[selectedRow][selectedCol].type,
                                          selectedRow, selectedCol, row, col)
                  THEN IF makeMoveThrows(g, selectedRow, selectedCol, row, col)
                       THEN g
                       ELSE afterMove(clearSelection(
                                makeMove(g, selectedRow, selectedCol, row, col)))
                  ELSE IF piece # NoPiece /\ piece.color = g.currentPlayer
                       THEN selectSquare(g, row, col)
                       ELSE clearSelection(g)
        ELSE IF piece # NoPiece /\ piece.color = g.currentPlayer
             THEN selectSquare(g, row, col)
             ELSE g

handleSquareClick(g, row, col) ==
    LET piece == g.board[row][col]
        selectedRow == g.selectedSquare[1]
        selectedCol == g.selectedSquare[2]
    IN  IF g.selectedSquare # NoSquare
        THEN IF selectedRow = row /\ selectedCol = col
             THEN clearSelection(g)
             ELSE IF isValidMove(g, selectedRow, selectedCol, row, col)
                  THEN IF makeMoveThrows(g, selectedRow, selectedCol, row, col)
                       THEN g
                       ELSE afterMove(clearSelection(
                                makeMove(g, selectedRow, selectedCol, row, col)))
                  ELSE IF piece # NoPiece /\ piece.color = g.currentPlayer
                       THEN selectSquare(g, row, col)
                       ELSE clearSelection(g)
        ELSE IF piece # NoPiece /\ piece.color = g.currentPlayer
             THEN selectSquare(g, row, col)
             ELSE g

\* the listener of #chess-board
boardClick(g, row, col) ==
    IF g.gameOver \/ g.botThinking THEN g ELSE handleSquareClick(g, row, col)

\* board[row][col].type = pieceType raises a TypeError on an empty cell (and on
\* the NaN of a dataset never written), before anything was written
handlePawnPromotion(g, pieceType) ==
    LET row == g.promotionModal.row
        col == g.promotionModal.col
    IN  IF row = NaN \/ col = NaN THEN g
        ELSE IF g.board[row][col] = NoPiece THEN g
        ELSE switchPlayer([g EXCEPT !.board[row][col].type = pieceType,
                                    !.promotionModal.hidden = TRUE])

\* resetGame leaving the promotion modal as it is
resetGame_ModalLeft(g) ==
    [g EXCEPT !.board = initializeBoard,
              !.currentPlayer = "white",
              !.selectedSquare = NoSquare,
              !.gameOver = FALSE,
              !.botThinking = FALSE,
              !.capturedPieces = [c \in Colors |-> <<>>],
              !.scores = [c \in Colors |-> 0],
              !.moveHistory = <<>>,
              !.enPassantTarget = NoTarget,
              !.castlingRights = initialCastlingRights]

resetGame(g) ==
    [g EXCEPT !.board = initializeBoard,
              !.currentPlayer = "white",
              !.selectedSquare = NoSquare,
              !.gameOver = FALSE,
              !.botThinking = FALSE,
              !.capturedPieces = [c \in Colors |-> <<>>],
              !.scores = [c \in Colors |-> 0],
              !.moveHistory = <<>>,
              !.enPassantTarget = NoTarget,
              !.castlingRights = initialCastlingRights,
              !.promotionModal.hidden = TRUE]

-----------------------------------------------------------------------------
(* Bot move selector.  Math.random() is an input: each selector is modelled by *)
(* the set of moves it can return over all values of its random draws.         *)

Range(seq) == {seq[i] : i \in DOMAIN seq}

\* origin / destination pairs in the order of getAllValidMoves' nested loops
ScanPairs == [i \in 1 .. NumSquares * NumSquares |->
                 [from |-> ScanSquares[((i - 1) \div NumSquares) + 1],
                  to |-> ScanSquares[((i - 1) % NumSquares) + 1]]]

getAllValidMoves(g, color) ==
    LET ok(m) == /\ g.board[m.from[1]][m.from[2]] # NoPiece
                 /\ g.board[m.from[1]][m.from[2]].color = color
                 /\ isValidMove(g, m.from[1], m.from[2], m.to[1], m.to[2])
    IN  SelectSeq(ScanPairs, ok)

isCapture(g, move) == g.board[move.to[1]][move.to[2]] # NoPiece

\* the simulation of getMediumMove / getHardMove: the move puts white in check
givesCheck(g, move) ==
    LET piece == g.board[move.from[1]][move.from[2]]
        moved == [g EXCEPT !.board[move.to[1]][move.to[2]] = piece,
                           !.board[move.from[1]][move.from[2]] = NoPiece]
    IN  isInCheck(moved, "white")

capturesOf(g, moves) == LET c(m) == isCapture(g, m) IN SelectSeq(moves, c)

checksOf(g, moves) ==
    LET c(m) == ~isCapture(g, m) /\ givesCheck(g, m) IN SelectSeq(moves, c)

capturedValue(g, move) == pieceValues(g.board[move.to[1]][move.to[2]].type)

\* captures[0] without the sort
bestCapture_Unsorted(g, captures) == captures[1]

\* captures.sort(by captured value, descending)[0]: the sort is stable, so the
\* first capture in scan order among those of the highest value
bestCapture(g, captures) ==
    LET i == CHOOSE i \in DOMAIN captures :
                 /\ \A j \in DOMAIN captures :
                        capturedValue(g, captures[j]) <= capturedValue(g, captures[i])
                 /\ \A j \in 1 .. i - 1 :
                        capturedValue(g, captures[j]) < capturedValue(g, captures[i])
    IN  captures[i]

getRandomMove(g, moves) ==
    (IF capturesOf(g, moves) # <<>> THEN Range(capturesOf(g, moves)) ELSE {})
        \cup Range(moves)

getMediumMove(g, moves) ==
    (IF capturesOf(g, moves) # <<>> THEN {bestCapture(g, capturesOf(g, moves))} ELSE {})
        \cup (IF checksOf(g, moves) # <<>> THEN Range(checksOf(g, moves)) ELSE {})
        \cup Range(moves)

getHardMove(g, moves) ==
    IF capturesOf(g, moves) # <<>> THEN {bestCapture(g, capturesOf(g, moves))}
    ELSE IF checksOf(g, moves) # <<>> THEN {checksOf(g, moves)[1]}
    ELSE Range(moves)

\* the switch on botDifficulty in makeBotMove
selectBotMove(g, moves) ==
    CASE g.botDifficulty = "easy" -> getRandomMove(g, moves)
      [] g.botDifficulty = "medium" -> getMediumMove(g, moves)
      [] g.botDifficulty = "hard" -> getHardMove(g, moves)
      [] OTHER -> getRandomMove(g, moves)

\* makeBotMove from "if (bestMove)" on
applyBotMove(g, bestMove) ==
    LET fromRow == bestMove.from[1]
        fromCol == bestMove.from[2]
        toRow == bestMove.to[1]
        toCol == bestMove.to[2]
        g1 == makeMove(g, fromRow, fromCol, toRow, toCol)
        piece == g1.board[toRow][toCol]
        g2 == IF piece # NoPiece /\ piece.type = "pawn" /\ (toRow = 0 \/ toRow = LastIndex)
              THEN [g1 EXCEPT !.board[toRow][toCol].type = "queen"]
              ELSE g1
    IN  IF makeMoveThrows(g, fromRow, fromCol, toRow, toCol) THEN g
        ELSE [afterMove(g2) EXCEPT !.botThinking = FALSE]

\* the moves makeBotMove may apply in g; empty when it returns early
botMoves(g) ==
    IF g.gameOver \/ g.currentPlayer # "black" THEN {}
    ELSE LET validMoves == getAllValidMoves(g, "black")
         IN  IF validMoves = <<>> THEN {} ELSE selectBotMove(g, validMoves)

\* makeBotMove leaving the turn with black after its move
makeBotMove_TurnKept(g, bestMove) ==
    IF g.gameOver \/ g.currentPlayer # "black" THEN [g EXCEPT !.botThinking = FALSE]
    ELSE IF getAllValidMoves(g, "black") = <<>> THEN [g EXCEPT !.botThinking = FALSE]
    ELSE [applyBotMove(g, bestMove) EXCEPT !.currentPlayer = g.currentPlayer]

makeBotMove(g, bestMove) ==
    IF g.gameOver \/ g.currentPlayer # "black" THEN [g EXCEPT !.botThinking = FALSE]
    ELSE IF getAllValidMoves(g, "black") = <<>> THEN [g EXCEPT !.botThinking = FALSE]
    ELSE applyBotMove(g, bestMove)

-----------------------------------------------------------------------------
(* The inputs.  The board clicks and the bot's random draws are drawn from a  *)
(* book of games: at the n-th move of a game the human clicks the squares of  *)
(* the book's n-th entry, and the random draws select a move of that entry    *)
(* when the selector can return one (the draw 0, the first move, otherwise).  *)

MaxResets == 1

\* two-pawn opening, fool's mate and a pawn's jump over its own knight
Opening ==
    <<
      {<<6, 5, 5, 5>>, <<6, 4, 4, 4>>, <<7, 6, 5, 5>>},  \* 1: f2f3 e2e4 g1f3
      {<<1, 4, 3, 4>>, <<1, 0, 2, 0>>},  \* 2: e7e5 a7a6
      {<<6, 6, 4, 6>>, <<6, 5, 4, 5>>, <<4, 4, 3, 4>>},  \* 3: g2g4 f2f4 e4e5
      {<<0, 3, 4, 7>>, <<1, 3, 3, 3>>},  \* 4: d8h4 d7d5
      {<<3, 4, 2, 3>>, <<4, 6, 3, 6>>}  \* 5: e5d6 g4g5
    >>

\* white mates on f7
ScholarsMate ==
    <<
      {<<6, 4, 4, 4>>},  \* 1: e2e4
      {<<1, 4, 3, 4>>},  \* 2: e7e5
      {<<7, 5, 4, 2>>},  \* 3: f1c4
      {<<0, 1, 2, 2>>},  \* 4: b8c6
      {<<7, 3, 3, 7>>},  \* 5: d1h5
      {<<0, 6, 2, 5>>},  \* 6: g8f6
      {<<3, 7, 1, 5>>},  \* 7: h5f7
      {<<0, 4, 1, 5>>}  \* 8: e8f7
    >>

\* en passant taken at once, or one move too late
EnPassant ==
    <<
      {<<6, 4, 4, 4>>},  \* 1: e2e4
      {<<1, 0, 2, 0>>, <<1, 7, 2, 7>>},  \* 2: a7a6 h7h6
      {<<4, 4, 3, 4>>},  \* 3: e4e5
      {<<1, 3, 3, 3>>, <<1, 5, 3, 5>>},  \* 4: d7d5 f7f5
      {<<3, 4, 2, 3>>, <<3, 4, 2, 5>>, <<6, 7, 5, 7>>},  \* 5: e5d6 e5f6 h2h3
      {<<2, 0, 3, 0>>, <<2, 7, 3, 7>>},  \* 6: a6a5 h6h5
      {<<3, 4, 2, 3>>, <<3, 4, 2, 5>>}  \* 7: e5d6 e5f6
    >>

\* castling of both sides, tried too early, in time, and after the king or the rook moved
Castling ==
    <<
      {<<6, 4, 4, 4>>, <<7, 4, 7, 6>>},  \* 1: e2e4 e1g1
      {<<1, 4, 3, 4>>},  \* 2: e7e5
      {<<7, 6, 5, 5>>, <<7, 4, 7, 6>>},  \* 3: g1f3 e1g1
      {<<0, 1, 2, 2>>, <<0, 6, 2, 5>>},  \* 4: b8c6 g8f6
      {<<7, 5, 6, 4>>, <<7, 5, 4, 2>>, <<7, 4, 7, 6>>},  \* 5: f1e2 f1c4 e1g1
      {<<0, 6, 2, 5>>, <<0, 5, 1, 4>>, <<0, 1, 2, 2>>},  \* 6: g8f6 f8e7 b8c6
      {<<7, 4, 7, 6>>, <<7, 4, 7, 5>>, <<7, 7, 7, 6>>},  \* 7: e1g1 e1f1 h1g1
      {<<0, 5, 1, 4>>, <<0, 4, 0, 6>>, <<2, 5, 4, 4>>},  \* 8: f8e7 e8g8 f6e4
      {<<7, 4, 7, 6>>, <<7, 5, 7, 4>>, <<7, 6, 7, 7>>},  \* 9: e1g1 f1e1 g1h1
      {<<0, 4, 0, 6>>, <<1, 0, 2, 0>>},  \* 10: e8g8 a7a6
      {<<7, 4, 7, 6>>, <<7, 4, 7, 2>>}  \* 11: e1g1 e1c1
    >>

\* castling across a square a bishop attacks, and on the queen's side
CastlingThroughCheck ==
    <<
      {<<6, 6, 5, 6>>, <<6, 3, 4, 3>>},  \* 1: g2g3 d2d4
      {<<1, 1, 2, 1>>},  \* 2: b7b6
      {<<7, 5, 6, 6>>, <<7, 2, 4, 5>>},  \* 3: f1g2 c1f4
      {<<0, 2, 2, 0>>},  \* 4: c8a6
      {<<7, 6, 5, 5>>, <<7, 1, 5, 2>>},  \* 5: g1f3 b1c3
      {<<2, 0, 6, 4>>, <<0, 6, 2, 5>>},  \* 6: a6e2 g8f6
      {<<6, 4, 4, 4>>, <<7, 3, 6, 3>>, <<7, 4, 7, 6>>},  \* 7: e2e4 d1d2 e1g1
      {<<0, 1, 2, 2>>, <<1, 4, 2, 4>>},  \* 8: b8c6 e7e6
      {<<7, 4, 7, 6>>, <<7, 4, 7, 2>>},  \* 9: e1g1 e1c1
      {<<1, 0, 3, 0>>}  \* 10: a7a5
    >>

\* a white pawn reaches g8 and is taken there, or promoted, by either order
Promotion ==
    <<
      {<<6, 7, 4, 7>>},  \* 1: h2h4
      {<<1, 6, 3, 6>>},  \* 2: g7g5
      {<<4, 7, 3, 6>>},  \* 3: h4g5
      {<<0, 5, 1, 6>>},  \* 4: f8g7
      {<<3, 6, 2, 6>>},  \* 5: g5g6
      {<<0, 4, 0, 5>>},  \* 6: e8f8
      {<<2, 6, 1, 7>>},  \* 7: g6h7
      {<<1, 0, 2, 0>>},  \* 8: a7a6
      {<<1, 7, 0, 6>>},  \* 9: h7g8
      {<<0, 5, 0, 6>>, <<0, 7, 0, 6>>, <<0, 6, 0, 5>>, <<1, 1, 3, 1>>},  \* 10: f8g8 h8g8 g8f8 b7b5
      {<<0, 6, 0, 5>>, <<0, 6, 0, 7>>, <<6, 0, 5, 0>>, <<1, 2, 2, 1>>, <<2, 0, 3, 1>>, <<0, 6, 1, 7>>},  \* 11: g8f8 g8h8 a2a3 c7b6 a6b5 g8h7
      {<<2, 0, 3, 0>>, <<6, 0, 5, 0>>, <<1, 1, 2, 1>>, <<1, 2, 2, 1>>}  \* 12: a6a5 a2a3 b7b6 c7b6
    >>

\* the en-passant capture that opens the fifth rank onto the capturing side's king
EnPassantPin ==
    <<
      {<<6, 4, 4, 4>>},  \* 1: e2e4
      {<<1, 2, 2, 2>>},  \* 2: c7c6
      {<<4, 4, 3, 4>>},  \* 3: e4e5
      {<<0, 3, 3, 0>>},  \* 4: d8a5
      {<<6, 5, 4, 5>>},  \* 5: f2f4
      {<<1, 0, 2, 0>>},  \* 6: a7a6
      {<<7, 4, 6, 5>>},  \* 7: e1f2
      {<<1, 1, 2, 1>>},  \* 8: b7b6
      {<<6, 5, 5, 6>>},  \* 9: f2g3
      {<<0, 2, 1, 1>>},  \* 10: c8b7
      {<<5, 6, 4, 7>>},  \* 11: g3h4
      {<<1, 7, 2, 7>>},  \* 12: h7h6
      {<<4, 7, 3, 7>>},  \* 13: h4h5
      {<<1, 3, 3, 3>>},  \* 14: d7d5
      {<<3, 4, 2, 3>>},  \* 15: e5d6
      {<<3, 0, 3, 7>>, <<2, 0, 3, 0>>}  \* 16: a5h5 a6a5
    >>

\* a promotion left open, then an en-passant capture that mates the capturing side
SelfMate ==
    <<
      {<<6, 7, 4, 7>>},  \* 1: h2h4
      {<<1, 6, 3, 6>>},  \* 2: g7g5
      {<<4, 7, 3, 6>>},  \* 3: h4g5
      {<<0, 5, 1, 6>>},  \* 4: f8g7
      {<<3, 6, 2, 6>>},  \* 5: g5g6
      {<<1, 0, 2, 0>>},  \* 6: a7a6
      {<<2, 6, 1, 7>>},  \* 7: g6h7
      {<<0, 0, 1, 0>>},  \* 8: a8a7
      {<<1, 7, 0, 6>>},  \* 9: h7g8
      {<<0, 7, 3, 7>>},  \* 10: h8h5
      {<<6, 4, 4, 4>>},  \* 11: e2e4
      {<<3, 7, 3, 6>>},  \* 12: h5g5
      {<<4, 4, 3, 4>>},  \* 13: e4e5
      {<<1, 0, 0, 0>>},  \* 14: a7a8
      {<<7, 4, 6, 4>>},  \* 15: e1e2
      {<<0, 0, 1, 0>>},  \* 16: a8a7
      {<<6, 4, 5, 3>>},  \* 17: e2d3
      {<<1, 0, 0, 0>>},  \* 18: a7a8
      {<<5, 3, 4, 2>>},  \* 19: d3c4
      {<<0, 0, 1, 0>>},  \* 20: a8a7
      {<<4, 2, 3, 2>>},  \* 21: c4c5
      {<<1, 0, 0, 0>>},  \* 22: a7a8
      {<<6, 1, 4, 1>>},  \* 23: b2b4
      {<<0, 0, 1, 0>>},  \* 24: a8a7
      {<<6, 2, 4, 2>>},  \* 25: c2c4
      {<<1, 3, 3, 3>>},  \* 26: d7d5
      {<<3, 4, 2, 3>>},  \* 27: e5d6
      {<<1, 0, 0, 0>>}  \* 28: a7a8
    >>

\* a black pawn reaches b1
BotPromotion ==
    <<
      {<<6, 1, 4, 1>>},  \* 1: b2b4
      {<<1, 0, 3, 0>>},  \* 2: a7a5
      {<<6, 7, 5, 7>>},  \* 3: h2h3
      {<<3, 0, 4, 1>>},  \* 4: a5b4
      {<<5, 7, 4, 7>>},  \* 5: h3h4
      {<<4, 1, 5, 1>>},  \* 6: b4b3
      {<<4, 7, 3, 7>>},  \* 7: h4h5
      {<<5, 1, 6, 0>>},  \* 8: b3a2
      {<<3, 7, 2, 7>>},  \* 9: h5h6
      {<<6, 0, 7, 1>>},  \* 10: a2b1
      {<<2, 7, 1, 6>>, <<7, 0, 7, 1>>},  \* 11: h6g7 a1b1
      {<<0, 5, 1, 6>>, <<1, 7, 2, 7>>}  \* 12: f8g7 h7h6
    >>

\* the bot may take a pawn or the queen, or a bishop in two ways
HardCaptures ==
    <<
      {<<6, 4, 4, 4>>},  \* 1: e2e4
      {<<0, 6, 2, 5>>},  \* 2: g8f6
      {<<7, 3, 4, 6>>, <<7, 5, 2, 0>>},  \* 3: d1g4 f1a6
      {<<2, 5, 4, 6>>, <<0, 1, 2, 0>>}  \* 4: f6g4 b8a6
    >>

\* an en-passant capture that opens the fourth rank from a black rook to the white king
DiscoveredCheck ==
    <<
      {<<6, 5, 5, 5>>},  \* 1: f2f3
      {<<1, 0, 3, 0>>},  \* 2: a7a5
      {<<7, 4, 6, 5>>},  \* 3: e1f2
      {<<3, 0, 4, 0>>},  \* 4: a5a4
      {<<6, 5, 5, 6>>},  \* 5: f2g3
      {<<4, 0, 5, 0>>},  \* 6: a4a3
      {<<6, 1, 5, 1>>},  \* 7: b2b3
      {<<1, 3, 3, 3>>},  \* 8: d7d5
      {<<6, 6, 4, 6>>},  \* 9: g2g4
      {<<3, 3, 4, 3>>},  \* 10: d5d4
      {<<4, 6, 3, 6>>},  \* 11: g4g5
      {<<0, 0, 3, 0>>},  \* 12: a8a5
      {<<5, 6, 4, 7>>},  \* 13: g3h4
      {<<3, 0, 4, 0>>},  \* 14: a5a4
      {<<6, 4, 4, 4>>},  \* 15: e2e4
      {<<4, 3, 5, 4>>, <<1, 7, 2, 7>>}  \* 16: d4e3 h7h6
    >>

\* the king's rook travels to the a-file and leaves it again
RookTour ==
    <<
      {<<6, 7, 4, 7>>},  \* 1: h2h4
      {<<1, 0, 2, 0>>},  \* 2: a7a6
      {<<7, 7, 5, 7>>},  \* 3: h1h3
      {<<1, 1, 2, 1>>},  \* 4: b7b6
      {<<5, 7, 5, 0>>},  \* 5: h3a3
      {<<1, 2, 2, 2>>},  \* 6: c7c6
      {<<5, 0, 5, 1>>, <<7, 0, 7, 1>>},  \* 7: a3b3 a1b1
      {<<1, 3, 2, 3>>}  \* 8: d7d6
    >>

Book ==
    <<[difficulty |-> {"easy", "hard"}, plies |-> Opening],
      [difficulty |-> {"medium"}, plies |-> ScholarsMate],
      [difficulty |-> {"easy"}, plies |-> EnPassant],
      [difficulty |-> {"easy"}, plies |-> Castling],
      [difficulty |-> {"easy"}, plies |-> CastlingThroughCheck],
      [difficulty |-> {"easy"}, plies |-> Promotion],
      [difficulty |-> {"easy"}, plies |-> EnPassantPin],
      [difficulty |-> {"easy"}, plies |-> SelfMate],
      [difficulty |-> {"easy"}, plies |-> BotPromotion],
      [difficulty |-> {"hard"}, plies |-> HardCaptures],
      [difficulty |-> {"easy", "hard"}, plies |-> DiscoveredCheck],
      [difficulty |-> {"easy"}, plies |-> RookTour]>>


\* what #promotion-modal's buttons carry in dataset.piece
PromotionKinds == {"queen", "rook", "bishop", "knight"}

bookMoves(l, history) ==
    LET n == Len(history) + 1
    IN  IF n <= Len(Book[l].plies) THEN Book[l].plies[n] ELSE {}

clickSquares(l, history) ==
    {<<m[1], m[2]>> : m \in bookMoves(l, history)}
        \cup {<<m[3], m[4]>> : m \in bookMoves(l, history)}

botDraws(g, l) ==
    LET can == botMoves(g)
        first == getAllValidMoves(g, "black")[1]
        booked == {m \in can :
                     <<m.from[1], m.from[2], m.to[1], m.to[2]>> \in bookMoves(l, g.moveHistory)}
    IN  IF booked # {} THEN booked
        ELSE IF first \in can THEN {first}
        ELSE can

-----------------------------------------------------------------------------
(* The state machine *)

This ==
    [board |-> board, currentPlayer |-> currentPlayer, selectedSquare |-> selectedSquare,
     gameOver |-> gameOver, capturedPieces |-> capturedPieces, scores |-> scores,
     moveHistory |-> moveHistory, enPassantTarget |-> enPassantTarget,
     castlingRights |-> castlingRights, botDifficulty |-> botDifficulty,
     botThinking |-> botThinking, promotionModal |-> promotionModal,
     botTimers |-> botTimers]

Becomes(g) ==
    /\ board' = g.board
    /\ currentPlayer' = g.currentPlayer
    /\ selectedSquare' = g.selectedSquare
    /\ gameOver' = g.gameOver
    /\ capturedPieces' = g.capturedPieces
    /\ scores' = g.scores
    /\ moveHistory' = g.moveHistory
    /\ enPassantTarget' = g.enPassantTarget
    /\ castlingRights' = g.castlingRights
    /\ botDifficulty' = g.botDifficulty
    /\ botThinking' = g.botThinking
    /\ promotionModal' = g.promotionModal
    /\ botTimers' = g.botTimers

Init ==
    /\ line \in DOMAIN Book
    /\ resets = 0
    /\ board = initializeBoard
    /\ currentPlayer = "white"
    /\ selectedSquare = NoSquare
    /\ gameOver = FALSE
    /\ capturedPieces = [c \in Colors |-> <<>>]
    /\ scores = [c \in Colors |-> 0]
    /\ moveHistory = <<>>
    /\ enPassantTarget = NoTarget
    /\ castlingRights = initialCastlingRights
    /\ botDifficulty \in Book[line].difficulty
    /\ botThinking = FALSE
    /\ promotionModal = [hidden |-> TRUE, row |-> NaN, col |-> NaN]
    /\ botTimers = 0

\* a click on a square of the board
BoardClick ==
    /\ \E sq \in clickSquares(line, moveHistory) :
           Becomes(boardClick(This, sq[1], sq[2]))
    /\ UNCHANGED <<line, resets>>

\* a click on a button of the promotion modal, which shows while not hidden
PromotionClick ==
    /\ ~promotionModal.hidden
    /\ \E pieceType \in PromotionKinds : Becomes(handlePawnPromotion(This, pieceType))
    /\ UNCHANGED <<line, resets>>

\* a scheduled setTimeout callback runs makeBotMove
BotTimer ==
    /\ botTimers > 0
    /\ LET g == [This EXCEPT !.botTimers = @ - 1]
       IN  IF botMoves(g) = {}
           THEN Becomes(makeBotMove(g, [from |-> NoSquare, to |-> NoSquare]))
           ELSE \E bestMove \in botDraws(g, line) : Becomes(makeBotMove(g, bestMove))
    /\ UNCHANGED <<line, resets>>

\* the change listener of #difficulty
DifficultyChange ==
    /\ \E d \in Book[line].difficulty \ {botDifficulty} :
           Becomes([This EXCEPT !.botDifficulty = d])
    /\ UNCHANGED <<line, resets>>

\* a click on #new-game-btn
NewGameClick ==
    /\ resets < MaxResets
    /\ resets' = resets + 1
    /\ Becomes(resetGame(This))
    /\ UNCHANGED line

Next ==
    \/ BoardClick
    \/ PromotionClick
    \/ BotTimer
    \/ DifficultyChange
    \/ NewGameClick

Spec == Init /\ [][Next]_vars

-----------------------------------------------------------------------------
(* Vocabulary of the properties *)

\* the game after the step
ThisNext ==
    [board |-> board', currentPlayer |-> currentPlayer',
     selectedSquare |-> selectedSquare', gameOver |-> gameOver',
     capturedPieces |-> capturedPieces', scores |-> scores',
     moveHistory |-> moveHistory', enPassantTarget |-> enPassantTarget',
     castlingRights |-> castlingRights', botDifficulty |-> botDifficulty',
     botThinking |-> botThinking', promotionModal |-> promotionModal',
     botTimers |-> botTimers']

\* the step applied a move: makeMove pushed one record onto moveHistory
moveApplied == Len(moveHistory') = Len(moveHistory) + 1

lastMove(history) == history[Len(history)]

\* the color that made the move of a record, read off the piece the move left on
\* its destination; b is the board before any later move
moverOf(b, record) == b[record.to[1]][record.to[2]].color

Sign(x) == IF x > 0 THEN 1 ELSE IF x < 0 THEN -1 ELSE 0

\* the squares strictly between two squares of one rank, file or diagonal are empty
clearBetween(b, fromRow, fromCol, toRow, toCol) ==
    \A k \in 1 .. Max(Abs(toRow - fromRow), Abs(toCol - fromCol)) - 1 :
        b[fromRow + k * Sign(toRow - fromRow)][fromCol + k * Sign(toCol - fromCol)]
            = NoPiece

\* the rules of chess: the piece on (fromRow, fromCol) of board b attacks
\* (toRow, toCol).  Stated on the board alone, without the validator.
attacks(b, fromRow, fromCol, toRow, toCol) ==
    LET piece == b[fromRow][fromCol]
        dr == toRow - fromRow
        dc == toCol - fromCol
        straight == (dr = 0 \/ dc = 0) /\ clearBetween(b, fromRow, fromCol, toRow, toCol)
        diagonal == Abs(dr) = Abs(dc) /\ clearBetween(b, fromRow, fromCol, toRow, toCol)
    IN  /\ <<dr, dc>> # <<0, 0>>
        /\ CASE piece.type = "pawn" ->
                    dr = (IF piece.color = "white" THEN -1 ELSE 1) /\ Abs(dc) = 1
             [] piece.type = "knight" -> {Abs(dr), Abs(dc)} = {1, 2}
             [] piece.type = "bishop" -> diagonal
             [] piece.type = "rook" -> straight
             [] piece.type = "queen" -> straight \/ diagonal
             [] piece.type = "king" -> Abs(dr) <= 1 /\ Abs(dc) <= 1
             [] OTHER -> FALSE

attackedBy(b, row, col, color) ==
    \E fromRow \in Rows, fromCol \in Cols :
        /\ b[fromRow][fromCol].color = color
        /\ attacks(b, fromRow, fromCol, row, col)

kingSquares(b, color) ==
    {sq \in Rows \X Cols :
        b[sq[1]][sq[2]].type = "king" /\ b[sq[1]][sq[2]].color = color}

kingAttacked(b, color) ==
    \E sq \in kingSquares(b, color) : attackedBy(b, sq[1], sq[2], Other(color))

\* the promotion modal shows for a white pawn that a board click brought to row 0
humanPromotionPending ==
    /\ ~promotionModal.hidden
    /\ promotionModal.row = 0
    /\ board[0][promotionModal.col] = [Piece("pawn", "white") EXCEPT !.hasMoved = TRUE]

-----------------------------------------------------------------------------
(* Turn taking and the end of the game *)

\* C1: after every applied move, by a board click or by the bot, if the opponent
\* of the mover has no move isValidMove accepts, the game is over in the state
\* the move leaves (checkmate or stalemate), before any further event.
C1_TerminalAtOnce ==
    [][moveApplied =>
          LET opponent == Other(moverOf(board', lastMove(moveHistory')))
          IN  ~hasValidMove([ThisNext EXCEPT !.currentPlayer = opponent], opponent)
                  => gameOver']_vars

\* C2: while a white pawn a board click brought to its final rank waits for its
\* piece kind, the turn has not advanced: white is the side to move, no bot move
\* is scheduled, and the promoting move is still the last applied move.
C2_TurnWaitsForPromotion ==
    humanPromotionPending =>
        /\ currentPlayer = "white"
        /\ ~botThinking
        /\ lastMove(moveHistory).to = <<promotionModal.row, promotionModal.col>>

\* C3: consecutive records of moveHistory are moves of opposite colors and the
\* first is a white move: no side moves twice in a row, under any interleaving of
\* board clicks, promotion choices and timer callbacks.
C3_SidesAlternate ==
    [][moveApplied =>
          LET mover == moverOf(board', lastMove(moveHistory'))
          IN  IF moveHistory = <<>> THEN mover = "white"
              ELSE mover # moverOf(board, lastMove(moveHistory))]_vars

-----------------------------------------------------------------------------
(* Kings *)

\* C4: once makeMove has applied a move completely, the mover's own king is
\* attacked by no enemy piece.
C4_OwnKingSafe ==
    [][moveApplied =>
          ~kingAttacked(board', moverOf(board', lastMove(moveHistory')))]_vars

\* C5: in every reachable state the board holds exactly one white king and
\* exactly one black king.
C5_OneKingEach ==
    \A color \in Colors : Cardinality(kingSquares(board, color)) = 1

\* C6: once gameOver is true, no event other than resetGame changes the board,
\* the side to move, the captured lists, the scores or the move history.
C6_TerminalIsFrozen ==
    [][(gameOver /\ resets' = resets) =>
          UNCHANGED <<board, currentPlayer, capturedPieces, scores, moveHistory>>]_vars

-----------------------------------------------------------------------------
(* Pawn moves *)

\* C7: isValidMove accepts a pawn's two-step forward move only when the pawn
\* stands on its color's starting row and both the square it passes over and the
\* destination square are empty.
C7_PawnTwoStep ==
    \A fromRow \in Rows, fromCol \in Cols :
        LET piece == board[fromRow][fromCol]
            direction == IF piece.color = "white" THEN -1 ELSE 1
            startRow == IF piece.color = "white" THEN WhitePawnRow ELSE BlackPawnRow
            toRow == fromRow + 2 * direction
        IN  (/\ piece.type = "pawn"
             /\ toRow \in Rows
             /\ isValidMove(This, fromRow, fromCol, toRow, fromCol))
            => /\ fromRow = startRow
               /\ board[fromRow + direction][fromCol] = NoPiece
               /\ board[toRow][fromCol] = NoPiece

\* the last applied move was a two-rank advance of a pawn of the color, and
\* (row, col) is the square that pawn passed over
passedOver(row, col, color) ==
    /\ moveHistory # <<>>
    /\ LET last == lastMove(moveHistory)
       IN  /\ last.piece = "pawn"
           /\ moverOf(board, last) = color
           /\ last.from[2] = last.to[2]
           /\ Abs(last.to[1] - last.from[1]) = 2
           /\ row = (last.from[1] + last.to[1]) \div 2
           /\ col = last.to[2]

\* C9: a pawn's diagonal move onto an empty square is accepted only when the
\* last applied move was an enemy pawn's two-rank advance over that square; after
\* any other applied move enPassantTarget is null.
C9_EnPassantOnlyAfterDoubleStep ==
    /\ \A fromRow \in Rows, fromCol \in Cols :
           LET piece == board[fromRow][fromCol]
               toRow == fromRow + (IF piece.color = "white" THEN -1 ELSE 1)
           IN  \A toCol \in {fromCol - 1, fromCol + 1} \cap Cols :
                   (/\ piece.type = "pawn"
                    /\ toRow \in Rows
                    /\ board[toRow][toCol] = NoPiece
                    /\ isValidMove(This, fromRow, fromCol, toRow, toCol))
                   => passedOver(toRow, toCol, Other(piece.color))
    /\ (/\ moveHistory # <<>>
        /\ ~(/\ lastMove(moveHistory).piece = "pawn"
             /\ Abs(lastMove(moveHistory).to[1] - lastMove(moveHistory).from[1]) = 2))
       => enPassantTarget = NoTarget

\* the opening 1. e4 e5: (6,4) -> (4,4) by white, then (1,4) -> (3,4) by black
kingPawnOpening ==
    /\ Len(moveHistory) = 2
    /\ moveHistory[1].from = <<6, 4>> /\ moveHistory[1].to = <<4, 4>>
    /\ moveHistory[2].from = <<1, 4>> /\ moveHistory[2].to = <<3, 4>>

\* C10: after (6,4) -> (4,4) by white and (1,4) -> (3,4) by black from the
\* starting position the game is not over, white is to move, and the en-passant
\* target is the square (2,4) the black pawn passed over.
C10_AfterKingPawnOpening ==
    kingPawnOpening =>
        /\ ~gameOver
        /\ currentPlayer = "white"
        /\ enPassantTarget = [row |-> 2, col |-> 4]

\* C10 with the target it names: null after the two moves
C10_TargetNull ==
    kingPawnOpening =>
        /\ ~gameOver
        /\ currentPlayer = "white"
        /\ enPassantTarget = NoTarget

C10_OpeningPlayed ==
    kingPawnOpening /\ board[3][4] = [Piece("pawn", "black") EXCEPT !.hasMoved = TRUE]

-----------------------------------------------------------------------------
(* Castling *)

\* the piece on the square has its hasMoved flag clear and no record of
\* moveHistory leaves or reaches the square
neverMoved(row, col) ==
    /\ ~board[row][col].hasMoved
    /\ \A i \in DOMAIN moveHistory :
           moveHistory[i].from # <<row, col>> /\ moveHistory[i].to # <<row, col>>

\* isValidMove accepts the two-column move of the king on (fromRow, fromCol)
castlingAccepted(fromRow, fromCol, toCol) ==
    /\ board[fromRow][fromCol].type = "king"
    /\ isValidMove(This, fromRow, fromCol, fromRow, toCol)

\* C8: a king's two-column horizontal move is accepted only if the king has
\* never moved, the piece on that side's corner is a rook that has never moved,
\* the matching castling right is true, every square strictly between king and
\* rook is empty, and no enemy piece attacks the king's square, the square it
\* crosses or the square it lands on.
C8_CastlingConditions ==
    \A fromRow \in Rows, fromCol \in Cols :
        \A toCol \in {fromCol - 2, fromCol + 2} \cap Cols :
            LET piece == board[fromRow][fromCol]
                isKingside == toCol > fromCol
                rookCol == IF isKingside THEN KingsideRookCol ELSE QueensideRookCol
                side == IF isKingside THEN "kingside" ELSE "queenside"
                enemy == Other(piece.color)
            IN  castlingAccepted(fromRow, fromCol, toCol) =>
                    /\ neverMoved(fromRow, fromCol)
                    /\ board[fromRow][rookCol].type = "rook"
                    /\ neverMoved(fromRow, rookCol)
                    /\ castlingRights[piece.color][side]
                    /\ \A col \in Min(fromCol, rookCol) + 1 .. Max(fromCol, rookCol) - 1 :
                           board[fromRow][col] = NoPiece
                    /\ ~attackedBy(board, fromRow, fromCol, enemy)
                    /\ ~attackedBy(board, fromRow, (fromCol + toCol) \div 2, enemy)
                    /\ ~attackedBy(board, fromRow, toCol, enemy)

C8_CastlingOffered ==
    \E fromRow \in Rows, fromCol \in Cols :
        \E toCol \in {fromCol - 2, fromCol + 2} \cap Cols :
            castlingAccepted(fromRow, fromCol, toCol)

-----------------------------------------------------------------------------
(* Promotion *)

\* handlePawnPromotion took effect: the modal closed, and not by a reset
promotionChoice ==
    ~promotionModal.hidden /\ promotionModal'.hidden /\ resets' = resets

\* a promotion is pending: the modal shows for a pawn standing on its final rank
promotionPending ==
    /\ ~promotionModal.hidden
    /\ LET piece == board[promotionModal.row][promotionModal.col]
       IN  /\ piece.type = "pawn"
           /\ promotionModal.row = (IF piece.color = "white" THEN 0 ELSE LastIndex)

\* C11: a promotion choice that takes effect while a promotion is pending changes
\* only the kind of the pending pawn; in every other situation it changes neither
\* the board nor the side to move.
C11_PromotionOnlyWhenPending ==
    [][promotionChoice =>
          IF promotionPending
          THEN \E kind \in PromotionKinds :
                   board' = [board EXCEPT
                                ![promotionModal.row][promotionModal.col].type = kind]
          ELSE board' = board /\ currentPlayer' = currentPlayer]_vars

\* C12: when a move brings a black pawn to its final rank, the state the move
\* leaves holds a black queen on that square and the promotion modal is hidden.
C12_BotPromotesToQueen ==
    [][(/\ moveApplied
        /\ lastMove(moveHistory').piece = "pawn"
        /\ lastMove(moveHistory').to[1] = LastIndex
        /\ moverOf(board', lastMove(moveHistory')) = "black")
       => /\ board'[LastIndex][lastMove(moveHistory').to[2]].type = "queen"
          /\ promotionModal'.hidden]_vars

-----------------------------------------------------------------------------
(* Applied moves *)

\* C13: every move applied to the board, by a board click or by the bot, moves
\* a piece of the side to move and is a move isValidMove accepts in the state
\* immediately before it is applied.
C13_AppliedMovesWereValid ==
    [][moveApplied =>
          LET move == lastMove(moveHistory')
          IN  /\ board[move.from[1]][move.from[2]].color = currentPlayer
              /\ isValidMove(This, move.from[1], move.from[2], move.to[1], move.to[2])]_vars

\* a click's move and then a move the bot chose at hard difficulty are applied
C13_ClickAndBotMoved ==
    /\ Len(moveHistory) >= 2
    /\ moverOf(board, lastMove(moveHistory)) = "black"
    /\ lastMove(moveHistory).captured # NoPiece
    /\ botDifficulty = "hard"

-----------------------------------------------------------------------------
(* The simulations of hypothetical moves.  The validator and the bot try a     *)
(* move on this.board itself and write the old contents back; the operators    *)
(* above read the temporary board, these give the game the calls leave behind. *)

\* wouldLeaveKingInCheck without the restore of the captured piece
wouldLeaveKingInCheck_restored_NoTarget(g, fromRow, fromCol, toRow, toCol) ==
    LET piece == g.board[fromRow][fromCol]
        g1 == [g EXCEPT !.board[toRow][toCol] = piece]
        g2 == [g1 EXCEPT !.board[fromRow][fromCol] = NoPiece]
    IN  [g2 EXCEPT !.board[fromRow][fromCol] = piece]

\* the game after wouldLeaveKingInCheck: the temporary move, then the restore
wouldLeaveKingInCheck_restored(g, fromRow, fromCol, toRow, toCol) ==
    LET piece == g.board[fromRow][fromCol]
        capturedPiece == g.board[toRow][toCol]
        g1 == [g EXCEPT !.board[toRow][toCol] = piece]
        g2 == [g1 EXCEPT !.board[fromRow][fromCol] = NoPiece]
        g3 == [g2 EXCEPT !.board[fromRow][fromCol] = piece]
    IN  [g3 EXCEPT !.board[toRow][toCol] = capturedPiece]

\* the game after wouldBeInCheck: the temporary king, then the restore
wouldBeInCheck_restored(g, color, kingRow, kingCol) ==
    LET originalPiece == g.board[kingRow][kingCol]
        g1 == [g EXCEPT !.board[kingRow][kingCol] = Piece("king", color)]
    IN  [g1 EXCEPT !.board[kingRow][kingCol] = originalPiece]

\* the game after the check test of getMediumMove / getHardMove on one move
checkSimulation_restored(g, move) ==
    LET piece == g.board[move.from[1]][move.from[2]]
        originalPiece == g.board[move.to[1]][move.to[2]]
        g1 == [g EXCEPT !.board[move.to[1]][move.to[2]] = piece]
        g2 == [g1 EXCEPT !.board[move.from[1]][move.from[2]] = NoPiece]
        g3 == [g2 EXCEPT !.board[move.from[1]][move.from[2]] = piece]
    IN  [g3 EXCEPT !.board[move.to[1]][move.to[2]] = originalPiece]

\* isValidMove reaches its simulation for the move
simulationReached(g, fromRow, fromCol, toRow, toCol) ==
    LET piece == g.board[fromRow][fromCol]
        targetPiece == g.board[toRow][toCol]
    IN  /\ piece # NoPiece /\ piece.color = g.currentPlayer
        /\ ~(targetPiece # NoPiece /\ targetPiece.color = piece.color)
        /\ isPieceMovementValid(g, piece.type, fromRow, fromCol, toRow, toCol)

\* every simulation a query can run in the state leaves the game as it was
queriesRestore ==
    /\ \A fromRow \in Rows, fromCol \in Cols, toRow \in Rows, toCol \in Cols :
           simulationReached(This, fromRow, fromCol, toRow, toCol)
               => wouldLeaveKingInCheck_restored(This, fromRow, fromCol, toRow, toCol) = This
    /\ \A color \in Colors, kingRow \in Rows, kingCol \in Cols :
           wouldBeInCheck_restored(This, color, kingRow, kingCol) = This
    /\ currentPlayer = "black"
           => \A move \in Range(getAllValidMoves(This, "black")) :
                  ~isCapture(This, move) => checkSimulation_restored(This, move) = This

\* C14: the simulations of isValidMove, getValidMoves, canCastle, isCheckmate,
\* isStalemate, getMediumMove and getHardMove leave the game exactly as before,
\* and a step that applies no move (a rejected attempt among them) changes
\* neither the board with its hasMoved flags, the side to move, the captured
\* lists, the scores, the move history, the en-passant target nor the castling
\* rights.
C14_QueriesChangeNothing ==
    /\ []queriesRestore
    /\ [][(~moveApplied /\ ~promotionChoice /\ resets' = resets)
          => UNCHANGED <<board, currentPlayer, capturedPieces, scores, moveHistory,
                         enPassantTarget, castlingRights>>]_vars

\* a piece is selected and the next click asks for a move of it that the
\* simulation rejects: it would leave the mover's king in check
C14_RejectedBySimulation ==
    /\ selectedSquare # NoSquare
    /\ ~botThinking /\ ~gameOver
    /\ \E sq \in clickSquares(line, moveHistory) :
           /\ simulationReached(This, selectedSquare[1], selectedSquare[2], sq[1], sq[2])
           /\ wouldLeaveKingInCheck(This, selectedSquare[1], selectedSquare[2], sq[1], sq[2])

-----------------------------------------------------------------------------
(* Captures and scores *)

\* the piece values the scores are stated in
materialValue(kind) ==
    CASE kind = "pawn" -> 1
      [] kind = "knight" -> 3
      [] kind = "bishop" -> 3
      [] kind = "rook" -> 5
      [] kind = "queen" -> 9
      [] kind = "king" -> 0

RECURSIVE materialOf(_)
materialOf(pieces) ==
    IF pieces = <<>> THEN 0
    ELSE materialValue(Head(pieces).type) + materialOf(Tail(pieces))

\* C15: for each color C, scores[C] is the sum of the piece values of the
\* pieces in capturedPieces[C].
C15_ScoresMatchCaptures ==
    \A color \in Colors : scores[color] = materialOf(capturedPieces[color])

\* both sides have captured, a pawn taken en passant among the captures
C15_BothSidesCaptured ==
    /\ scores["white"] > 0 /\ scores["black"] > 0
    /\ \E i \in DOMAIN moveHistory :
           /\ moveHistory[i].piece = "pawn"
           /\ moveHistory[i].from[2] # moveHistory[i].to[2]
           /\ moveHistory[i].captured = NoPiece

\* C16: every piece in capturedPieces[C] has color C: captured pieces are
\* stored under the color that lost them.
C16_StoredUnderLoser ==
    \A color \in Colors : \A i \in DOMAIN capturedPieces[color] :
        capturedPieces[color][i].color = color

-----------------------------------------------------------------------------
(* Castling rights and the reset *)

\* C17: within one game each castling right only ever changes from true to
\* false: a step other than a reset leaves no right true that was false.
C17_RightsOnlyLost ==
    [][resets' = resets =>
          \A color \in Colors, side \in {"kingside", "queenside"} :
              castlingRights'[color][side] => castlingRights[color][side]]_vars

\* white has lost the king's side right by a rook move and kept the other
C17_RightLost ==
    /\ ~castlingRights["white"]["kingside"]
    /\ castlingRights["white"]["queenside"]
    /\ \E i \in DOMAIN moveHistory : moveHistory[i].piece = "rook"

\* C18: resetGame, from any reachable state, yields the initial game state: the
\* starting position with every hasMoved false, white to move, gameOver false,
\* empty captured lists and move history, zero scores, null en-passant target,
\* all four castling rights true, and no promotion pending.
C18_ResetRestoresStart ==
    [][resets' = resets + 1 =>
          /\ board' = initializeBoard
          /\ \A row \in Rows, col \in Cols : ~board'[row][col].hasMoved
          /\ currentPlayer' = "white"
          /\ ~gameOver'
          /\ \A color \in Colors :
                 /\ capturedPieces'[color] = <<>>
                 /\ scores'[color] = 0
                 /\ castlingRights'[color]["kingside"]
                 /\ castlingRights'[color]["queenside"]
          /\ moveHistory' = <<>>
          /\ enPassantTarget' = NoTarget
          /\ selectedSquare' = NoSquare
          /\ promotionModal'.hidden]_vars

\* the game was reset while a pawn waited on g8 for its kind and a bot timer
\* was pending
C18_ResetWhilePending ==
    /\ resets = 1
    /\ moveHistory = <<>>
    /\ promotionModal.row = 0
    /\ botTimers > 0

-----------------------------------------------------------------------------
(* The bot at hard difficulty *)

\* the positions in a sequence of moves of the moves that land on an occupied square
captureIndices(moves) ==
    {i \in DOMAIN moves : board[moves[i].to[1]][moves[i].to[2]] # NoPiece}

takenValue(move) == materialValue(board[move.to[1]][move.to[2]].type)

\* C19: whenever at least one legal move of black lands on an occupied square,
\* getHardMove returns one move whatever its random draws: the first move in
\* scan order among those capturing a piece of maximal value.
C19_HardTakesBestCapture ==
    currentPlayer = "black" =>
        LET moves == getAllValidMoves(This, "black")
            captures == captureIndices(moves)
        IN  captures # {} =>
                \E i \in captures :
                    /\ \A j \in captures : takenValue(moves[j]) <= takenValue(moves[i])
                    /\ \A j \in captures :
                           takenValue(moves[j]) = takenValue(moves[i]) => i <= j
                    /\ getHardMove(This, moves) = {moves[i]}

\* the bot is to choose at hard difficulty and the first capture in scan order
\* takes less than a later one
C19_LaterCaptureIsBetter ==
    /\ currentPlayer = "black" /\ botThinking /\ botDifficulty = "hard"
    /\ LET moves == getAllValidMoves(This, "black")
       IN  \E i \in captureIndices(moves), j \in captureIndices(moves) :
               i < j /\ takenValue(moves[i]) < takenValue(moves[j])

-----------------------------------------------------------------------------
(* Checkmate and stalemate *)

\* C20: for each color, isCheckmate and isStalemate are never both true, and
\* when either is true isValidMove accepts no move of any piece of the color.
C20_MateExcludesStalemate ==
    \A color \in Colors :
        /\ ~(isCheckmate(This, color) /\ isStalemate(This, color))
        /\ (isCheckmate(This, color) \/ isStalemate(This, color)) =>
               \A fromRow \in Rows, fromCol \in Cols :
                   board[fromRow][fromCol].color = color =>
                       \A toRow \in Rows, toCol \in Cols :
                           ~isValidMove(This, fromRow, fromCol, toRow, toCol)

\* the side to move is checkmated
C20_SideToMoveMated ==
    /\ isCheckmate(This, currentPlayer)
    /\ kingSquares(board, currentPlayer) # {}
    /\ ~botThinking

-----------------------------------------------------------------------------
(* Move records *)

\* the piece a move from (fromRow, fromCol) to (toRow, toCol) removes from the
\* board: the occupant of the destination, or the pawn passed by a pawn that
\* moves diagonally onto an empty square, or none
removedPiece(fromRow, fromCol, toRow, toCol) ==
    IF board[toRow][toCol] # NoPiece THEN board[toRow][toCol]
    ELSE IF board[fromRow][fromCol].type = "pawn" /\ fromCol # toCol
         THEN board[fromRow][toCol]
         ELSE NoPiece

\* C21: every applied move appends exactly one record to moveHistory, holding
\* the origin it emptied, the destination it filled, the kind of the piece it
\* moved, the piece it removed from the board (the passed pawn for an en-passant
\* capture, none if it removed nothing) and the en-passant target before the move.
C21_RecordHoldsTheMove ==
    [][moveApplied =>
          LET record == lastMove(moveHistory')
              fromRow == record.from[1]
              fromCol == record.from[2]
              toRow == record.to[1]
              toCol == record.to[2]
          IN  /\ moveHistory' = Append(moveHistory, record)
              /\ board[fromRow][fromCol] # NoPiece
              /\ board'[fromRow][fromCol] = NoPiece
              /\ board'[toRow][toCol].color = board[fromRow][fromCol].color
              /\ record.piece = board[fromRow][fromCol].type
              /\ record.captured = removedPiece(fromRow, fromCol, toRow, toCol)
              /\ record.enPassantTarget = enPassantTarget]_vars

-----------------------------------------------------------------------------
(* The hard bot's checks *)

\* the board once the bot has applied move: makeMove's writes and the queen
\* that makeBotMove puts in place of a pawn on the last row
boardAfterBotMove(move) ==
    LET toRow == move.to[1]
        toCol == move.to[2]
        g1 == makeMove(This, move.from[1], move.from[2], toRow, toCol)
        piece == g1.board[toRow][toCol]
    IN  IF makeMoveThrows(This, move.from[1], move.from[2], toRow, toCol) THEN board
        ELSE IF piece # NoPiece /\ piece.type = "pawn" /\ (toRow = 0 \/ toRow = LastIndex)
             THEN [g1.board EXCEPT ![toRow][toCol].type = "queen"]
             ELSE g1.board

\* the legal moves of black after which the white king is attacked
checkIndices(moves) ==
    {i \in DOMAIN moves : kingAttacked(boardAfterBotMove(moves[i]), "white")}

\* C22: whenever no legal move of black lands on an occupied square and at
\* least one of them leaves the white king attacked once applied, getHardMove
\* returns one move whatever its random draws: the first such move in scan order.
C22_HardGivesFirstCheck ==
    currentPlayer = "black" =>
        LET moves == getAllValidMoves(This, "black")
            checking == checkIndices(moves)
        IN  captureIndices(moves) = {} /\ checking # {} =>
                \E i \in checking :
                    /\ \A j \in checking : i <= j
                    /\ getHardMove(This, moves) = {moves[i]}

-----------------------------------------------------------------------------
(* When the game ends *)

\* C23: the game is declared over only in a position where the opponent of the
\* player who made the last move, the side due to move next, has no move
\* isValidMove accepts.
C23_OverOnlyWithoutMoves ==
    [][~gameOver /\ gameOver' =>
          /\ moveHistory' # <<>>
          /\ LET opponent == Other(moverOf(board', lastMove(moveHistory')))
             IN  ~hasValidMove([ThisNext EXCEPT !.currentPlayer = opponent], opponent)]_vars

-----------------------------------------------------------------------------
(* Progress of the bot *)

\* a pending timer fires: the one step that takes a timer off the pending ones
\* (the BotTimer steps of Next, told by the timer count alone)
TimerFires == botTimers > 0 /\ botTimers' = botTimers - 1

\* setTimeout(() => this.makeBotMove(), 500): a scheduled timer does fire
FairSpec == Spec /\ WF_botTimers(TimerFires)

\* C24: whenever it is black's turn and the game is not over, eventually the
\* game is over or a black move has been applied and passed the turn to white
\* (or a new game has been started).
C24_BotEventuallyMoves ==
    (currentPlayer = "black" /\ ~gameOver)
        ~> \/ gameOver
           \/ /\ currentPlayer = "white"
              /\ \/ moveHistory = <<>>
                 \/ moverOf(board, lastMove(moveHistory)) = "black"

-----------------------------------------------------------------------------
(* Timers and a new game *)

\* C25: a timer that fires while it is white's turn, as one left pending by a
\* new game does, applies no move and leaves the position alone; and a timer
\* applies a move only on black's turn and ends that turn with it, so that
\* further pending timers add no second move to the same turn.
C25_StaleTimerIsHarmless ==
    [][TimerFires =>
          /\ currentPlayer = "white" =>
                 /\ ~moveApplied
                 /\ UNCHANGED <<board, currentPlayer, gameOver, capturedPieces, scores,
                                moveHistory, enPassantTarget, castlingRights>>
          /\ moveApplied =>
                 /\ currentPlayer = "black"
                 /\ ~gameOver
                 /\ gameOver' \/ currentPlayer' = "white"]_vars

\* in the new game the bot has answered white's first move while a second
\* timer, scheduled before the new game, is still pending
C25_SecondTimerPending ==
    /\ resets = 1
    /\ Len(moveHistory) = 2
    /\ currentPlayer = "white"
    /\ botTimers > 0

-----------------------------------------------------------------------------
(* Conservation of the pieces *)

piecesOnBoard(b, color) ==
    Cardinality({sq \in Rows \X Cols : b[sq[1]][sq[2]].color = color})

\* the captured pieces of a color, in whichever list they are kept
piecesTaken(color) ==
    Cardinality({i \in DOMAIN capturedPieces["white"] :
                    capturedPieces["white"][i].color = color})
    + Cardinality({i \in DOMAIN capturedPieces["black"] :
                      capturedPieces["black"][i].color = color})

\* C26: the pieces are conserved: of each color, the pieces on the board and
\* the pieces in the two captured lists are together as many as the starting
\* position has, and the lists hold pieces only.
C26_PiecesConserved ==
    /\ \A color \in Colors :
           piecesOnBoard(board, color) + piecesTaken(color)
               = piecesOnBoard(initializeBoard, color)
    /\ \A color \in Colors : \A i \in DOMAIN capturedPieces[color] :
           capturedPieces[color][i] # NoPiece

\* pieces of both colors were taken, one of them en passant
C26_TakenBothWays ==
    /\ piecesTaken("white") > 0 /\ piecesTaken("black") > 0
    /\ \E i \in DOMAIN moveHistory :
           /\ moveHistory[i].piece = "pawn"
           /\ moveHistory[i].from[2] # moveHistory[i].to[2]
           /\ moveHistory[i].captured = NoPiece

-----------------------------------------------------------------------------
(* The effect of an en-passant capture *)

\* a record of a pawn that moved diagonally to a square that was empty
isEnPassantRecord(record) ==
    /\ record.piece = "pawn"
    /\ record.from[2] # record.to[2]
    /\ record.captured = NoPiece

\* C27: an applied en-passant capture leaves the capturing pawn on the
\* en-passant target square, empties the square (row of the origin, column of
\* the destination) of the enemy pawn that had just advanced two ranks, and
\* adds that pawn once to the captured lists and 1 to the scores.
C27_EnPassantEffect ==
    [][moveApplied /\ isEnPassantRecord(lastMove(moveHistory')) =>
          LET record == lastMove(moveHistory')
              fromRow == record.from[1]
              toRow == record.to[1]
              toCol == record.to[2]
              mover == board[fromRow][record.from[2]].color
              passed == board[fromRow][toCol]
          IN  /\ enPassantTarget = [row |-> toRow, col |-> toCol]
              /\ board'[toRow][toCol].type = "pawn"
              /\ board'[toRow][toCol].color = mover
              /\ passed.type = "pawn"
              /\ passed.color = Other(mover)
              /\ lastMove(moveHistory).to = <<fromRow, toCol>>
              /\ Abs(lastMove(moveHistory).to[1] - lastMove(moveHistory).from[1]) = 2
              /\ board'[fromRow][toCol] = NoPiece
              /\ \E color \in Colors :
                     /\ capturedPieces' =
                            [capturedPieces EXCEPT ![color] = Append(@, passed)]
                     /\ scores' = [scores EXCEPT ![color] = @ + 1]]_vars

\* the last applied move was an en-passant capture and the passed pawn is gone
C27_EnPassantApplied ==
    /\ moveHistory # <<>>
    /\ isEnPassantRecord(lastMove(moveHistory))
    /\ board[lastMove(moveHistory).from[1]][lastMove(moveHistory).to[2]] = NoPiece
    /\ board[lastMove(moveHistory).to[1]][lastMove(moveHistory).to[2]].type = "pawn"

-----------------------------------------------------------------------------
(* What clears a castling right *)

homeRow(color) == IF color = "white" THEN LastIndex ELSE 0

cornerCol(side) == IF side = "kingside" THEN KingsideRookCol ELSE QueensideRookCol

\* the king of the color and the rook of the side's corner stand where the
\* game put them and have never moved
kingAndCornerRookAtHome(color, side) ==
    /\ board[homeRow(color)][4] = Piece("king", color)
    /\ neverMoved(homeRow(color), 4)
    /\ board[homeRow(color)][cornerCol(side)] = Piece("rook", color)
    /\ neverMoved(homeRow(color), cornerCol(side))

\* C28: while the king of a color and the rook that started on a side's corner
\* have both never moved, castlingRights[color][side] is true, whatever the
\* other pieces, the other rook among them, have done.
C28_RightKeptUntilKingOrRookMoves ==
    \A color \in Colors : \A side \in {"kingside", "queenside"} :
        kingAndCornerRookAtHome(color, side) => castlingRights[color][side]

=============================================================================
